---- MODULE Spec2Model ----
(***************************************************************************)
(* A model of pulsar-gpp-compiler (src/index.js): the argument vectors it  *)
(* builds for the compiler and for the terminal, and the life of a compile *)
(* invocation from the command to the end of the child's close handler.    *)
(*                                                                         *)
(* A JavaScript string is a sequence of pieces, each piece a TLA+ string:  *)
(* a literal such as "-o" is <<"-o">>, a path is <<dir, "/", name, ext>>,  *)
(* and an option string typed by the user is a sequence of one-character   *)
(* pieces, which is the form String.prototype.split works on.              *)
(***************************************************************************)
EXTENDS Integers, Sequences, FiniteSets, TLC

\* ------------------------------------------------------------ bounds
MaxFlagsLen == 3   \* characters in the two option strings together
MaxFiles == 2      \* files selected in the tree view
MaxInv == 2        \* compile commands in a run
MaxErrLen == 1     \* bytes a compiler writes to its standard error
MaxRawLen == 2     \* the same where the bytes are arbitrary

\* ------------------------------------------------------------ strings
SP == " "
TAB == "\t"
FlagChars == {SP, TAB, "a"}
WhiteSpace == {SP, TAB}

Lit(s) == <<s>>

Undefined == "undefined"

\* the strings of at most n characters over FlagChars
RECURSIVE StringsUpTo(_)
StringsUpTo(n) ==
  IF n = 0 THEN {<<>>}
  ELSE LET shorter == StringsUpTo(n - 1)
       IN shorter \cup {Append(s, c) : s \in {t \in shorter : Len(t) = n - 1}, c \in FlagChars}

\* String.prototype.split(sep) for a one-character separator: the pieces
\* between the separators, empty pieces included; "".split(" ") is [""].
RECURSIVE SplitFrom(_, _, _, _)
SplitFrom(s, sep, i, cur) ==
  IF i > Len(s) THEN <<cur>>
  ELSE IF s[i] = sep THEN <<cur>> \o SplitFrom(s, sep, i + 1, <<>>)
  ELSE SplitFrom(s, sep, i + 1, Append(cur, s[i]))

Split(s, sep) == SplitFrom(s, sep, 1, <<>>)

\* Array.prototype.filter(Boolean) on strings: the empty string is falsy.
FilterBoolean(xs) == SelectSeq(xs, LAMBDA x : x # <<>>)

\* ------------------------------------------------------------ paths
TmpDir == "/tmp"

\* a path with an extension is <<dir, "/", name, ".", ext>>, one without <<dir, "/", name>>
Path(dir, name, ext) == <<dir, "/", name, ".", ext>>

\* path.parse: dir, base (name and extension), name, ext ("" when there is none)
PathParse(p) ==
  [dir |-> p[1], name |-> p[3],
   ext |-> SubSeq(p, 4, Len(p)), base |-> SubSeq(p, 3, Len(p))]

\* path.join(dir, name)
PathJoin(dir, name) == <<dir, "/", name>>

FilePaths ==
  {Path("/src", "main", "c"), Path("/lib", "app", "cpp"), <<"/src", "/", "Makefile">>}

\* the ordered selections of at most n distinct files
RECURSIVE Selections(_)
Selections(n) ==
  IF n = 0 THEN {<<>>}
  ELSE LET shorter == Selections(n - 1)
       IN shorter \cup
          {Append(s[1], s[2]) :
             s \in {t \in shorter \X FilePaths :
                      /\ Len(t[1]) = n - 1
                      /\ \A k \in 1..Len(t[1]) : t[1][k] # t[2]}}

\* ------------------------------------------------------------ host
\* atom.grammars.getGrammars(): each grammar's name and file types
Grammars ==
  << [name |-> "C", fileTypes |-> <<"c", "h">>],
     [name |-> "C++", fileTypes |-> <<"cpp", "cc", "h">>],
     [name |-> "Python", fileTypes |-> <<"py">>] >>

GrammarNames == {"C", "C++", "Python"}

Platforms == {"linux", "win32", "darwin", "freebsd"}
Terminals ==
  {"GNOME Terminal", "Konsole", "xfce4-terminal", "pantheon-terminal", "URxvt",
   "MATE Terminal", "Terminator", Undefined}

\* the option strings of the two languages, as the settings can hold them
OptionPairs ==
  {<<c, cpp>> \in StringsUpTo(MaxFlagsLen) \X StringsUpTo(MaxFlagsLen) :
     Len(c) + Len(cpp) <= MaxFlagsLen}

NoCall == [fn |-> "none"]
NoSpawn == [via |-> "none"]
Threw == [via |-> "threw"]

VARIABLES
  callIn,     \* the last call of the argument builders: its inputs, the settings it read
  spawnOut,   \* what that call handed to child_process
  inv,        \* the compile invocations, in the order of their commands
  diagFile,   \* compiling_error.txt in the source directory: whether it exists, its bytes
  errTab,     \* whether an editor tab shows compiling_error.txt
  lastClosed, \* the invocation whose compiler process closed last (0: none yet)
  cleanClose, \* whether, when it closed, every earlier close handler was through with the file
  solo        \* whether no command has come while another invocation was under
              \* way, since the last command that came with none under way

argVars == <<callIn, spawnOut>>
procVars == <<inv, diagFile, errTab, lastClosed, cleanClose, solo>>
vars == <<callIn, spawnOut, inv, diagFile, errTab, lastClosed, cleanClose, solo>>

\* ------------------------------------------------------------ index.js
\* getFileType(ext): the first grammar with a file type of that extension,
\* undefined when none has; with no (or an empty) extension, the grammar of
\* the active editor, a TypeError when there is no active editor.
RECURSIVE GrammarOf(_, _)
GrammarOf(ext, g) ==
  IF g > Len(Grammars) THEN Undefined
  ELSE IF \E k \in 1..Len(Grammars[g].fileTypes) : ext = <<".", Grammars[g].fileTypes[k]>>
       THEN Grammars[g].name
       ELSE GrammarOf(ext, g + 1)

getFileType(ext, editorGrammar) ==
  IF ext # <<>> THEN GrammarOf(ext, 1) ELSE editorGrammar

\* getCommand(fileType)
getCommand(fileType, cfg) ==
  CASE fileType = "C" -> Lit(cfg.cCompiler)
    [] fileType = "C++" -> Lit(cfg.cppCompiler)
    [] OTHER -> Lit(Undefined)

\* the key of the option string getArgs reads
CompilerOptionsKey(fileType) ==
  IF fileType = "C++" THEN "cppCompilerOptions" ELSE "cCompilerOptions"

\* getArgs with "-o" and the output put before the sources
getArgs_OutputFirst(files, output, fileType, extraArgs, cfg) ==
  (IF extraArgs = <<>> THEN <<>> ELSE extraArgs[1])
    \o <<Lit("-o"), output>>
    \o files
    \o FilterBoolean(Split(cfg[CompilerOptionsKey(fileType)], SP))

\* getArgs(files, output, fileType, extraArgs); extraArgs is <<>> for null
\* and <<array>> for an array
getArgs(files, output, fileType, extraArgs, cfg) ==
  (IF extraArgs = <<>> THEN <<>> ELSE extraArgs[1])
    \o files
    \o <<Lit("-o"), output>>
    \o FilterBoolean(Split(cfg[CompilerOptionsKey(fileType)], SP))

\* getCompiledPath(dir, base)
getCompiledPath(dir, base, cfg) ==
  IF cfg.compileToTmpDirectory THEN PathJoin(TmpDir, base) ELSE PathJoin(dir, base)

\* gdb ? ["-g"] : null
DebugArgs(gdb) == IF gdb THEN << <<Lit("-g")>> >> ELSE <<>>

\* child_process.spawn(command, args, {cwd}): a command that is not a string throws
Spawn(command, args, cwd) ==
  IF command = Lit(Undefined) THEN Threw
  ELSE [via |-> "spawn", command |-> command, args |-> args, cwd |-> cwd]

Settings ==
  {[cCompiler |-> "gcc", cppCompiler |-> "g++", cCompilerOptions |-> o[1],
    cppCompilerOptions |-> o[2], compileToTmpDirectory |-> t] :
     o \in OptionPairs, t \in BOOLEAN}

\* compileFile(fileType, gdb) on a saved file: the compiler it spawns
CompileFileArgs ==
  /\ callIn = NoCall
  /\ \E gdb \in BOOLEAN, grammar \in GrammarNames, filePath \in FilePaths, cfg \in Settings :
    LET info == PathParse(filePath)
        fileType == getFileType(<<>>, grammar)
    IN /\ callIn' = [fn |-> "compileFile", gdb |-> gdb, files |-> <<filePath>>,
                     info |-> info, fileType |-> fileType, cfg |-> cfg]
       /\ spawnOut' = Spawn(getCommand(fileType, cfg),
                            getArgs(<<filePath>>, getCompiledPath(info.dir, info.name, cfg),
                                    fileType, DebugArgs(gdb), cfg),
                            info.dir)
       /\ UNCHANGED procVars

\* treeCompile(e, gdb): the selected files, the clicked file deciding the
\* language, the output and the working directory
TreeCompileArgs ==
  /\ callIn = NoCall
  /\ \E gdb \in BOOLEAN, files \in Selections(MaxFiles), target \in FilePaths,
     grammar \in GrammarNames, cfg \in Settings :
    LET info == PathParse(target)
        fileType == getFileType(info.ext, grammar)
    IN /\ callIn' = [fn |-> "treeCompile", gdb |-> gdb, files |-> files,
                     info |-> info, fileType |-> fileType, cfg |-> cfg]
       /\ spawnOut' = Spawn(getCommand(fileType, cfg),
                            getArgs(files, getCompiledPath(info.dir, info.name, cfg),
                                    fileType, DebugArgs(gdb), cfg),
                            info.dir)
       /\ UNCHANGED procVars

\* runProgram, the switch on the configured terminal: the command and the
\* arguments before the program
HoldUnless_Always(gdb, flag) == <<Lit(flag)>>

HoldUnless(gdb, flag) == IF gdb THEN <<>> ELSE <<Lit(flag)>>

TerminalSpec(terminal, gdb) ==
  CASE terminal = "GNOME Terminal" ->
         [command |-> "gnome-terminal", args |-> <<Lit("--command")>>]
    [] terminal = "Konsole" ->
         [command |-> "konsole", args |-> HoldUnless(gdb, "--hold") \o <<Lit("-e")>>]
    [] terminal = "xfce4-terminal" ->
         [command |-> "xfce4-terminal",
          args |-> HoldUnless(gdb, "--hold") \o <<Lit("--command")>>]
    [] terminal = "pantheon-terminal" ->
         [command |-> "pantheon-terminal", args |-> <<Lit("-e")>>]
    [] terminal = "URxvt" ->
         [command |-> "urxvt", args |-> HoldUnless(gdb, "-hold") \o <<Lit("-e")>>]
    [] terminal = "MATE Terminal" ->
         [command |-> "mate-terminal", args |-> <<Lit("--command")>>]
    [] OTHER ->
         [command |-> "xterm", args |-> HoldUnless(gdb, "-hold") \o <<Lit("-e")>>]

\* runProgram(info, gdb): what it hands to child_process on each platform
runProgram(info, gdb, platform, terminal, cfg) ==
  LET file == getCompiledPath(info.dir, info.name, cfg)
  IN CASE platform = "linux" ->
            LET t == TerminalSpec(terminal, gdb)
            IN Spawn(Lit(t.command),
                     t.args \o (IF gdb THEN <<Lit("gdb")>> ELSE <<>>) \o <<file>>,
                     info.dir)
       [] platform = "win32" ->
            [via |-> "exec",
             command |-> <<"start \"", info.name, "\" cmd /C \"", IF gdb THEN "gdb" ELSE "", " ">>
                           \o file \o <<" ", IF gdb THEN "" ELSE "& echo. & pause">>,
             args |-> <<>>, cwd |-> info.dir]
       [] platform = "darwin" -> Spawn(Lit("open"), <<file>>, info.dir)
       [] OTHER -> NoSpawn

\* the settings with both option strings empty, which runProgram does not read
RunSettings == {cfg \in Settings : cfg.cCompilerOptions = <<>> /\ cfg.cppCompilerOptions = <<>>}

RunProgramArgs ==
  /\ callIn = NoCall
  /\ \E gdb \in BOOLEAN, filePath \in FilePaths, platform \in Platforms,
     terminal \in Terminals, cfg \in RunSettings :
    LET info == PathParse(filePath)
    IN /\ callIn' = [fn |-> "runProgram", gdb |-> gdb, info |-> info,
                     platform |-> platform, terminal |-> terminal, cfg |-> cfg]
       /\ spawnOut' = runProgram(info, gdb, platform, terminal, cfg)
       /\ UNCHANGED procVars

\* ------------------------------------------------------------ a compile invocation
Slots == 1..MaxInv

Absent == [exists |-> FALSE, bytes |-> <<>>]

\* Buffer.prototype.toString(): the UTF-8 decoding of one chunk, an invalid
\* or truncated sequence becoming U+FFFD (65533); the result is a sequence
\* of code points
IsCont(b, i) == i <= Len(b) /\ b[i] >= 128 /\ b[i] <= 191

RECURSIVE Utf8DecodeFrom(_, _)
Utf8DecodeFrom(b, i) ==
  IF i > Len(b) THEN <<>>
  ELSE IF b[i] < 128 THEN <<b[i]>> \o Utf8DecodeFrom(b, i + 1)
  ELSE IF b[i] >= 194 /\ b[i] <= 223 THEN
    IF IsCont(b, i + 1)
    THEN <<(b[i] - 192) * 64 + (b[i + 1] - 128)>> \o Utf8DecodeFrom(b, i + 2)
    ELSE <<65533>> \o Utf8DecodeFrom(b, i + 1)
  ELSE IF b[i] >= 224 /\ b[i] <= 239 THEN
    IF IsCont(b, i + 1) /\ IsCont(b, i + 2)
    THEN <<(b[i] - 224) * 4096 + (b[i + 1] - 128) * 64 + (b[i + 2] - 128)>>
           \o Utf8DecodeFrom(b, i + 3)
    ELSE IF IsCont(b, i + 1) THEN <<65533>> \o Utf8DecodeFrom(b, i + 2)
    ELSE <<65533>> \o Utf8DecodeFrom(b, i + 1)
  ELSE <<65533>> \o Utf8DecodeFrom(b, i + 1)

Utf8Decode(b) == Utf8DecodeFrom(b, 1)

\* fs.writeFile(path, string): the UTF-8 encoding of the string
RECURSIVE Utf8Encode(_)
Utf8Encode(str) ==
  IF str = <<>> THEN <<>>
  ELSE LET cp == Head(str)
           enc == IF cp < 128 THEN <<cp>>
                  ELSE IF cp < 2048 THEN <<192 + (cp \div 64), 128 + (cp % 64)>>
                  ELSE <<224 + (cp \div 4096), 128 + ((cp \div 64) % 64), 128 + (cp % 64)>>
       IN enc \o Utf8Encode(Tail(str))

\* the chunks of at most n bytes over an alphabet
RECURSIVE BytesUpTo(_, _)
BytesUpTo(alphabet, n) ==
  IF n = 0 THEN {<<>>}
  ELSE LET shorter == BytesUpTo(alphabet, n - 1)
       IN shorter \cup {Append(s, c) : s \in {t \in shorter : Len(t) = n - 1}, c \in alphabet}

Ascii == {97}
Utf8Bytes == {97, 195, 169}

ExitCodes == {"0", "1"}

\* if (code): a non-zero exit code is truthy
Truthy(code) == code # "0"

\* an invocation: where it stands (pc), what it holds (buffer, cmdOK, stderr,
\* code), and what it has done so far: the error notifications it has shown
\* (notes), the compilers it has spawned, the settings it read (showErrOpt,
\* runOpt, persistOpt), whether it launched the program (ran), wrote the diagnostics
\* file (wrote), opened the source again (reopened), activated the pane that
\* was active (focusBack), resolved its promise (settled), which guarded step
\* failed (fault), and how it ended (result); raw is what the compiler wrote
Idle ==
  [pc |-> "idle", buffer |-> "-", cmdOK |-> TRUE, stderr |-> <<>>, raw |-> <<>>,
   code |-> "-", notes |-> {}, spawned |-> 0,
   showErrOpt |-> FALSE, runOpt |-> FALSE, ran |-> FALSE, persistOpt |-> FALSE,
   wrote |-> FALSE,
   reopened |-> FALSE, focusBack |-> FALSE, settled |-> FALSE, fault |-> "none",
   result |-> "-"]

InFlight(r) == r.pc \notin {"idle", "done"}

\* a close handler that still has a file operation on compiling_error.txt ahead
FilePending(r) == r.pc \in {"writing", "accessing", "unlinking"}

\* the command handler throws: nothing is caught, nothing is notified
ThrewOut(r) == [r EXCEPT !.pc = "done", !.result = "threw"]

\* compileFile's else branch: "File not found. Save before compiling."
NotFound(r) ==
  [r EXCEPT !.pc = "done", !.result = "not-found", !.notes = r.notes \cup {"file-not-found"}]

\* compile rejects and the caller's catch shows the error
Rejected(r) ==
  [r EXCEPT !.pc = "done", !.result = "rejected", !.notes = r.notes \cup {"exception"}]

\* new Promise(...): child_process.spawn, which throws when the command is undefined
SpawnCompiler(r) ==
  IF r.cmdOK THEN [r EXCEPT !.pc = "running", !.spawned = r.spawned + 1]
  ELSE Rejected(r)

\* compile, up to its first await: with an active editor, editor.save()
CompileStart(r, editor) ==
  IF editor = "none" THEN SpawnCompiler(r)
  ELSE [r EXCEPT !.pc = "saving", !.buffer = IF editor = "saved" THEN "titled" ELSE "untitled"]

Editors == {"none", "untitled", "saved"}
Targets == {"ext", "noext", "none"}
FileTypes == {"C", "C++", "Python", Undefined}

DefaultSettings ==
  [cCompiler |-> "gcc", cppCompiler |-> "g++", cCompilerOptions |-> <<>>,
   cppCompilerOptions |-> <<>>, compileToTmpDirectory |-> TRUE]

\* the record of a command, from the handler registered in activate to the
\* first await: kind is "editor" (compile, gdb) or "tree" (tree-compile,
\* tree-gdb); editor is the active text editor (none, one never saved, one
\* with a file); target is the clicked tree entry (with an extension,
\* without one, without a data-path); fileType is the grammar's name
CommandOutcome(kind, editor, target, fileType) ==
  LET r == [Idle EXCEPT !.cmdOK = getCommand(fileType, DefaultSettings) # Lit(Undefined)]
  IN IF kind = "editor"
     THEN CASE editor = "none" -> ThrewOut(r)
            [] editor = "untitled" -> NotFound(r)
            [] OTHER -> CompileStart(r, editor)
     ELSE IF target = "none" \/ (target = "noext" /\ editor = "none")
          THEN ThrewOut(r)
          ELSE CompileStart(r, editor)

Dispatch(i, kind, gdb, editor, target, fileType) ==
  /\ inv[i].pc = "idle"
  /\ IF i = 1 THEN TRUE ELSE inv[i - 1].pc # "idle"
  /\ kind = "editor" => target = "ext"
  /\ LET r == CommandOutcome(kind, editor, target, fileType)
     IN /\ inv' = [inv EXCEPT ![i] = r]
        /\ solo' = IF InFlight(r) THEN \A j \in Slots : ~InFlight(inv[j]) ELSE solo
  /\ UNCHANGED <<diagFile, errTab, lastClosed, cleanClose, callIn, spawnOut>>

\* await editor.save() returns: a buffer with no file cannot be saved
SaveDone(i, mayFail) ==
  /\ inv[i].pc = "saving"
  /\ \E fails \in mayFail :
       inv' = [inv EXCEPT ![i] =
                 IF fails \/ inv[i].buffer = "untitled" THEN Rejected(inv[i])
                 ELSE SpawnCompiler(inv[i])]
  /\ UNCHANGED <<diagFile, errTab, lastClosed, cleanClose, solo, callIn, spawnOut>>

\* child.stderr.on("data"): stderr += data
OnData(i, alphabet, maxLen) ==
  /\ inv[i].pc = "running"
  /\ \E chunk \in BytesUpTo(alphabet, maxLen) \ {<<>>} :
       /\ Len(inv[i].raw) + Len(chunk) <= maxLen
       /\ inv' = [inv EXCEPT ![i].stderr = @ \o Utf8Decode(chunk), ![i].raw = @ \o chunk]
  /\ UNCHANGED <<diagFile, errTab, lastClosed, cleanClose, solo, callIn, spawnOut>>

\* the end of the success branch: open the source file, activate the pane
\* that was active, resolve()
Finish(r) ==
  [r EXCEPT !.pc = "done", !.result = "ok", !.reopened = TRUE, !.focusBack = TRUE,
            !.settled = TRUE]

\* the close handler on a non-zero exit code, up to its first await
CloseFailed(r, showErr, persist) ==
  LET noted == [r EXCEPT !.notes = r.notes \cup (IF showErr THEN {"stderr-error"} ELSE {}),
                         !.showErrOpt = showErr,
                         !.persistOpt = persist]
  IN IF persist THEN [noted EXCEPT !.pc = "writing"]
     ELSE [noted EXCEPT !.pc = "done", !.result = "failed"]

\* the success branch launching the program whatever runAfterCompile says
CloseSucceeded_AlwaysRun(r, run, destroyThrew) ==
  [r EXCEPT !.stderr = <<>>,
            !.raw = <<>>,
            !.runOpt = run,
            !.ran = TRUE,
            !.fault = IF destroyThrew THEN "close" ELSE r.fault,
            !.pc = "accessing"]

\* the close handler on exit code 0, up to await fs.access: the warnings
\* and the success message are notifications of other kinds than errors,
\* and stderr is not read again
CloseSucceeded(r, run, destroyThrew) ==
  [r EXCEPT !.stderr = <<>>,
            !.raw = <<>>,
            !.runOpt = run,
            !.ran = run,
            !.fault = IF destroyThrew THEN "close" ELSE r.fault,
            !.pc = "accessing"]

\* child.on("close", code), with the settings the handler reads (showErrs:
\* the values showErrorNotifications may have); destroy of the error tab may
\* throw only where faults are modelled
Close(i, mayFail, showErrs) ==
  /\ inv[i].pc = "running"
  /\ \E code \in ExitCodes, showErr \in showErrs, persist \in BOOLEAN,
        run \in BOOLEAN, closeTab \in BOOLEAN, fails \in mayFail :
       LET destroyThrew == ~Truthy(code) /\ closeTab /\ errTab /\ fails
           r == [inv[i] EXCEPT !.code = code]
       IN /\ inv' = [inv EXCEPT ![i] =
                       IF Truthy(code) THEN CloseFailed(r, showErr, persist)
                       ELSE CloseSucceeded(r, run, destroyThrew)]
          /\ errTab' = IF ~Truthy(code) /\ closeTab /\ ~destroyThrew THEN FALSE ELSE errTab
  /\ lastClosed' = i
  /\ cleanClose' = \A j \in Slots \ {i} : ~FilePending(inv[j])
  /\ UNCHANGED <<diagFile, solo, callIn, spawnOut>>

\* a failed write escalated: compile rejects and the caller shows the error
WriteDone_Rejects(i, mayFail) ==
  /\ inv[i].pc = "writing"
  /\ \E fails \in mayFail :
       IF fails
       THEN /\ inv' = [inv EXCEPT ![i] = Rejected([inv[i] EXCEPT !.fault = "write"])]
            /\ diagFile' = diagFile
       ELSE /\ inv' = [inv EXCEPT ![i].pc = "opening", ![i].wrote = TRUE]
            /\ diagFile' = [exists |-> TRUE, bytes |-> Utf8Encode(inv[i].stderr)]
  /\ UNCHANGED <<errTab, lastClosed, cleanClose, solo, callIn, spawnOut>>

\* await fs.writeFile(compiling_error.txt, stderr) returns
WriteDone(i, mayFail) ==
  /\ inv[i].pc = "writing"
  /\ \E fails \in mayFail :
       IF fails
       THEN /\ inv' = [inv EXCEPT ![i].pc = "done", ![i].result = "failed",
                                  ![i].fault = "write"]
            /\ diagFile' = diagFile
       ELSE /\ inv' = [inv EXCEPT ![i].pc = "opening", ![i].wrote = TRUE]
            /\ diagFile' = [exists |-> TRUE, bytes |-> Utf8Encode(inv[i].stderr)]
  /\ UNCHANGED <<errTab, lastClosed, cleanClose, solo, callIn, spawnOut>>

\* await atom.workspace.open(compiling_error.txt) returns; the tab is set
\* read-only, its pane shown, and the pane that was active is activated
OpenDone(i, mayFail) ==
  /\ inv[i].pc = "opening"
  /\ \E fails \in mayFail :
       IF fails
       THEN /\ inv' = [inv EXCEPT ![i].pc = "done", ![i].result = "failed",
                                  ![i].fault = "open"]
            /\ errTab' = errTab
       ELSE /\ inv' = [inv EXCEPT ![i].pc = "done", ![i].result = "failed",
                                  ![i].focusBack = TRUE]
            /\ errTab' = TRUE
  /\ UNCHANGED <<diagFile, lastClosed, cleanClose, solo, callIn, spawnOut>>

\* the delete made to depend on the tab having been closed: with a tab
\* still open the file is kept
AccessDone_KeepsWithTab(i, mayFail) ==
  /\ inv[i].pc = "accessing"
  /\ \E fails \in mayFail :
       inv' = [inv EXCEPT ![i] =
                 IF fails THEN Finish([inv[i] EXCEPT !.fault = "delete"])
                 ELSE IF diagFile.exists /\ ~errTab THEN [inv[i] EXCEPT !.pc = "unlinking"]
                 ELSE Finish(inv[i])]
  /\ UNCHANGED <<diagFile, errTab, lastClosed, cleanClose, solo, callIn, spawnOut>>

\* await fs.access(compiling_error.txt) returns: on an error (the file is
\* absent) the catch skips the unlink
AccessDone(i, mayFail) ==
  /\ inv[i].pc = "accessing"
  /\ \E fails \in mayFail :
       inv' = [inv EXCEPT ![i] =
                 IF fails THEN Finish([inv[i] EXCEPT !.fault = "delete"])
                 ELSE IF diagFile.exists THEN [inv[i] EXCEPT !.pc = "unlinking"]
                 ELSE Finish(inv[i])]
  /\ UNCHANGED <<diagFile, errTab, lastClosed, cleanClose, solo, callIn, spawnOut>>

\* the unlink left out
UnlinkDone_Skips(i, mayFail) ==
  /\ inv[i].pc = "unlinking"
  /\ \E fails \in mayFail :
       /\ inv' = [inv EXCEPT ![i] = Finish(inv[i])]
       /\ diagFile' = diagFile
  /\ UNCHANGED <<errTab, lastClosed, cleanClose, solo, callIn, spawnOut>>

\* await fs.unlink(compiling_error.txt) returns
UnlinkDone(i, mayFail) ==
  /\ inv[i].pc = "unlinking"
  /\ \E fails \in mayFail :
       IF fails
       THEN /\ inv' = [inv EXCEPT ![i] = Finish([inv[i] EXCEPT !.fault = "delete"])]
            /\ diagFile' = diagFile
       ELSE /\ inv' = [inv EXCEPT ![i] = Finish(inv[i])]
            /\ diagFile' = Absent
  /\ UNCHANGED <<errTab, lastClosed, cleanClose, solo, callIn, spawnOut>>

Init ==
  /\ callIn = NoCall
  /\ spawnOut = NoSpawn
  /\ inv = [i \in Slots |-> Idle]
  /\ diagFile = Absent
  /\ errTab = FALSE
  /\ lastClosed = 0
  /\ cleanClose = TRUE
  /\ solo = TRUE

Command(i) ==
  \E kind \in {"editor", "tree"}, gdb \in BOOLEAN, editor \in Editors, target \in Targets,
     fileType \in FileTypes :
    Dispatch(i, kind, gdb, editor, target, fileType)

\* a command on a C or C++ file that has a path, from the editor or the tree
\* view, with the file open in the active editor or, from the tree view,
\* with no active editor
ValidCommand(i) ==
  \E kind \in {"editor", "tree"}, gdb \in BOOLEAN, editor \in {"none", "saved"},
     fileType \in {"C", "C++"} :
    /\ kind = "editor" => editor = "saved"
    /\ Dispatch(i, kind, gdb, editor, "ext", fileType)

\* up to MaxInv valid commands, overlapping or not, with a filesystem and an
\* editor that do not fail and showErrorNotifications at its default
Next ==
  \E i \in Slots :
    \/ ValidCommand(i)
    \/ SaveDone(i, {FALSE})
    \/ OnData(i, Ascii, MaxErrLen)
    \/ Close(i, {FALSE}, {FALSE})
    \/ WriteDone(i, {FALSE})
    \/ OpenDone(i, {FALSE})
    \/ AccessDone(i, {FALSE})
    \/ UnlinkDone(i, {FALSE})

Spec == Init /\ [][Next]_vars

\* a session that starts with a compiling_error.txt, and a tab on it, left
\* by an earlier one
LeftOver == [exists |-> TRUE, bytes |-> <<98>>]

InitOne ==
  /\ callIn = NoCall
  /\ spawnOut = NoSpawn
  /\ inv = [i \in Slots |-> Idle]
  /\ diagFile \in {Absent, LeftOver}
  /\ errTab \in BOOLEAN
  /\ lastClosed = 0
  /\ cleanClose = TRUE
  /\ solo = TRUE

\* one command of any kind, in any state of the editor, whose compiler
\* writes arbitrary bytes in arbitrary chunks
NextOne ==
  \/ Command(1)
  \/ SaveDone(1, {FALSE})
  \/ OnData(1, Utf8Bytes, MaxRawLen)
  \/ Close(1, {FALSE}, BOOLEAN)
  \/ WriteDone(1, {FALSE})
  \/ OpenDone(1, {FALSE})
  \/ AccessDone(1, {FALSE})
  \/ UnlinkDone(1, {FALSE})

SpecOne == InitOne /\ [][NextOne]_vars

\* one command of any kind, every awaited step and the closing of the tab
\* free to fail
NextFault ==
  \/ Command(1)
  \/ SaveDone(1, BOOLEAN)
  \/ OnData(1, Ascii, MaxErrLen)
  \/ Close(1, BOOLEAN, BOOLEAN)
  \/ WriteDone(1, BOOLEAN)
  \/ OpenDone(1, BOOLEAN)
  \/ AccessDone(1, BOOLEAN)
  \/ UnlinkDone(1, BOOLEAN)

SpecFault == InitOne /\ [][NextFault]_vars

\* the call returns; the next command starts from a clean record
ArgsReturn ==
  /\ callIn # NoCall
  /\ callIn' = NoCall
  /\ spawnOut' = NoSpawn
  /\ UNCHANGED procVars

ArgsNext ==
  \/ CompileFileArgs
  \/ TreeCompileArgs
  \/ RunProgramArgs
  \/ ArgsReturn

SpecArgs == Init /\ [][ArgsNext]_vars

\* ------------------------------------------------------------ claims on the argument vectors
\* the maximal runs of s without a character of seps, in order
RunStarts(s, seps) == {i \in 1..Len(s) : s[i] \notin seps /\ (i = 1 \/ s[i - 1] \in seps)}

RunEnd(s, i, seps) ==
  CHOOSE j \in i..Len(s) :
    /\ j = Len(s) \/ s[j + 1] \in seps
    /\ \A k \in i..j : s[k] \notin seps

MaximalRuns(s, seps) ==
  LET starts == RunStarts(s, seps)
      nth(k) == CHOOSE i \in starts : Cardinality({j \in starts : j < i}) = k - 1
  IN [k \in 1..Cardinality(starts) |-> SubSeq(s, nth(k), RunEnd(s, nth(k), seps))]

IsCompileCall == callIn.fn \in {"compileFile", "treeCompile"} /\ spawnOut.via = "spawn"

\* the output path the settings ask for
ExpectedOutput ==
  <<IF callIn.cfg.compileToTmpDirectory THEN TmpDir ELSE callIn.info.dir, "/", callIn.info.name>>

\* what follows the output path in the compiler's argument vector
FlagsTail ==
  LET d == IF callIn.gdb THEN 1 ELSE 0
  IN SubSeq(spawnOut.args, d + Len(callIn.files) + 3, Len(spawnOut.args))

LanguageOptions ==
  IF callIn.fileType = "C++" THEN callIn.cfg.cppCompilerOptions
  ELSE callIn.cfg.cCompilerOptions

\* C1: for C and C++, a non-empty list of sources, either value of the
\* debugger flag and every option string, the compiler's argument vector is
\* "-g" exactly when the debugger was requested, the sources in the caller's
\* order, "-o", the output path, and then the pieces of that language's
\* option string (the runs between its spaces), with nothing else.
C1_ArgvLayout ==
  (IsCompileCall /\ callIn.fileType \in {"C", "C++"} /\ callIn.files # <<>>) =>
    LET a == spawnOut.args
        d == IF callIn.gdb THEN 1 ELSE 0
        n == Len(callIn.files)
    IN /\ Len(a) >= d + n + 2
       /\ callIn.gdb => a[1] = Lit("-g")
       /\ ~callIn.gdb => \A k \in 1..Len(a) : a[k] # Lit("-g")
       /\ \A k \in 1..n : a[d + k] = callIn.files[k]
       /\ a[d + n + 1] = Lit("-o")
       /\ a[d + n + 2] = ExpectedOutput
       /\ FlagsTail = MaximalRuns(LanguageOptions, {SP})

\* C1 witness: a C++ compile with the debugger, two sources and extra flags
C1_Witness ==
  /\ IsCompileCall
  /\ callIn.fileType = "C++"
  /\ callIn.gdb
  /\ Len(callIn.files) = 2
  /\ Len(FlagsTail) = 2
  /\ callIn.cfg.cCompilerOptions # callIn.cfg.cppCompilerOptions

\* C8: the tokens after the output path are the maximal whitespace-free
\* substrings of the language's option string, in order, none of them empty.
C8_WhitespaceSplit ==
  IsCompileCall =>
    /\ \A k \in 1..Len(FlagsTail) : FlagsTail[k] # <<>>
    /\ FlagsTail = MaximalRuns(LanguageOptions, WhiteSpace)

IsLinuxRun == callIn.fn = "runProgram" /\ callIn.platform = "linux"

HoldFlags == {Lit("--hold"), Lit("-hold")}

ArgsOf(out) == {out.args[k] : k \in 1..Len(out.args)}

\* C7 as claimed: on linux, for every terminal choice, the argument vector
\* holds a hold-open flag exactly when the debugger is not attached, "gdb"
\* right before the program exactly when it is, the compiled path last, and
\* the working directory is the source directory.
C7_HoldUnlessDebugger ==
  IsLinuxRun =>
    LET a == spawnOut.args
    IN /\ spawnOut.via = "spawn"
       /\ a[Len(a)] = ExpectedOutput
       /\ callIn.gdb => Len(a) >= 2 /\ a[Len(a) - 1] = Lit("gdb")
       /\ ~callIn.gdb => Lit("gdb") \notin ArgsOf(spawnOut)
       /\ (HoldFlags \cap ArgsOf(spawnOut) # {}) <=> ~callIn.gdb
       /\ spawnOut.cwd = callIn.info.dir

\* the terminals whose command line has a hold-open flag, and the flag
HoldFlagOf(terminal) ==
  CASE terminal \in {"Konsole", "xfce4-terminal"} -> <<Lit("--hold")>>
    [] terminal \in {"GNOME Terminal", "pantheon-terminal", "MATE Terminal"} -> <<>>
    [] OTHER -> <<Lit("-hold")>>

ExecFlagOf(terminal) ==
  IF terminal \in {"GNOME Terminal", "xfce4-terminal", "MATE Terminal"}
  THEN Lit("--command") ELSE Lit("-e")

\* C7 amended: on linux the argument vector is the terminal's hold-open flag
\* (Konsole, xfce4-terminal: --hold; URxvt and xterm, the fallback: -hold;
\* GNOME Terminal, pantheon-terminal and MATE Terminal have none) when the
\* debugger is not attached, the terminal's execute flag, "gdb" when the
\* debugger is attached, and the compiled path last; the working directory
\* is the source directory.
C7_TerminalArgv ==
  IsLinuxRun =>
    /\ spawnOut.via = "spawn"
    /\ spawnOut.args =
         (IF callIn.gdb THEN <<>> ELSE HoldFlagOf(callIn.terminal))
           \o <<ExecFlagOf(callIn.terminal)>>
           \o (IF callIn.gdb THEN <<Lit("gdb")>> ELSE <<>>)
           \o <<ExpectedOutput>>
    /\ spawnOut.cwd = callIn.info.dir

\* C7 witness: GNOME Terminal without the debugger, which gets no hold flag
C7_Witness ==
  /\ IsLinuxRun
  /\ callIn.terminal = "GNOME Terminal"
  /\ ~callIn.gdb
  /\ spawnOut.args = <<Lit("--command"), ExpectedOutput>>

\* ------------------------------------------------------------ claims on the invocations
Closed(r) == r.code # "-"

AllQuiet == \A i \in Slots : ~InFlight(inv[i])

\* the invocation of the latest command
IsLast(i) ==
  /\ inv[i].pc # "idle"
  /\ IF i = MaxInv THEN TRUE ELSE inv[i + 1].pc = "idle"

\* C2: every compile whose compiler has terminated, with exit code 0 or not,
\* has settled its promise once its close handler is through, and has
\* spawned exactly one compiler.
C2_SettlesOnExit ==
  \A i \in Slots :
    (inv[i].pc = "done" /\ Closed(inv[i])) => inv[i].settled /\ inv[i].spawned = 1

\* C3: an invocation whose compiler exited with 0 never writes
\* compiling_error.txt and launches the program exactly when runAfterCompile
\* is set; one whose compiler exited non-zero never launches it.
C3_SuccessRunsNoDiagnostics ==
  \A i \in Slots :
    /\ inv[i].code = "0" => ~inv[i].wrote /\ (inv[i].ran <=> inv[i].runOpt)
    /\ inv[i].code = "0" => inv[i].pc \notin {"writing", "opening"}
    /\ inv[i].code = "1" => ~inv[i].ran

\* C3 witness: a finished compile that exited with 0 and launched the program,
\* and one that exited non-zero and wrote the file
C3_Witness ==
  \E i, j \in Slots :
    /\ inv[i].pc = "done" /\ inv[i].code = "0" /\ inv[i].ran
    /\ inv[j].pc = "done" /\ inv[j].code = "1" /\ inv[j].wrote

\* the bytes that are well-formed UTF-8
WellFormed(bytes) == Utf8Encode(Utf8Decode(bytes)) = bytes

\* C4: after a compiler that exited non-zero having written T to its standard
\* error, with addCompilingErr set compiling_error.txt holds exactly T, and
\* with it unset the invocation has not written the file. (Stated for a T
\* that is well-formed UTF-8, which is the least the claim says.)
C4_FileHoldsStderr ==
  LET r == inv[1]
  IN (r.pc = "done" /\ r.code = "1" /\ WellFormed(r.raw)) =>
       /\ r.persistOpt => diagFile.exists /\ diagFile.bytes = r.raw
       /\ ~r.persistOpt => ~r.wrote

\* C5: once a compile that exited with 0, and that no other compile
\* overlapped, is through, there is no compiling_error.txt (one left by an
\* earlier failed compile is gone; none is as well), and the compile has
\* completed without an error.
C5_SuccessLeavesNoFile ==
  \A i \in Slots :
    (solo /\ IsLast(i) /\ inv[i].pc = "done" /\ inv[i].code = "0") =>
      /\ ~diagFile.exists
      /\ inv[i].result = "ok"
      /\ inv[i].settled
      /\ inv[i].notes = {}

\* C5 witness: a failed compile wrote the file, and a later successful one,
\* alone, has finished
C5_Witness ==
  /\ solo
  /\ inv[1].pc = "done" /\ inv[1].wrote
  /\ IsLast(2) /\ inv[2].pc = "done" /\ inv[2].code = "0"
  /\ ~diagFile.exists

NoDocument(kind, editor, target) ==
  \/ editor = "none"
  \/ kind = "editor" /\ editor = "untitled"
  \/ kind = "tree" /\ target = "none"

\* C6: each of the four commands, given with no active document or with no
\* source path, ends at once with an error notification, without having
\* saved, spawned a compiler, launched the program or touched
\* compiling_error.txt.
C6_FailsBeforeSpawn ==
  [][\A kind \in {"editor", "tree"}, gdb \in BOOLEAN, editor \in Editors,
        target \in Targets, fileType \in FileTypes :
       (NoDocument(kind, editor, target)
          /\ Dispatch(1, kind, gdb, editor, target, fileType)) =>
         /\ inv'[1].pc = "done"
         /\ inv'[1].spawned = 0
         /\ inv'[1].notes # {}
         /\ ~inv'[1].ran
         /\ diagFile' = diagFile]_vars

\* what the invocation whose compiler closed last asks of compiling_error.txt
LastClosedDecides ==
  LET r == inv[lastClosed]
  IN /\ r.code = "0" => ~diagFile.exists
     /\ (r.code = "1" /\ r.persistOpt) =>
          diagFile.exists /\ diagFile.bytes = Utf8Encode(r.stderr)

\* C9 as claimed: when invocations have overlapped and all are through,
\* compiling_error.txt is as the invocation whose compiler closed last
\* leaves it.
C9_LastToFinishWins ==
  (~solo /\ lastClosed # 0 /\ AllQuiet) => LastClosedDecides

\* C9 amended: the same, provided that when the last compiler closed no
\* close handler started earlier had a writeFile, access or unlink ahead.
C9_LastCleanCloseWins ==
  (lastClosed # 0 /\ cleanClose /\ AllQuiet) => LastClosedDecides

\* C9 witness: two overlapping compiles, the one that exited with 0 through
\* with the file before the other, which failed, closed and wrote it
C9_Witness ==
  /\ ~solo /\ cleanClose /\ AllQuiet /\ lastClosed # 0
  /\ inv[lastClosed].code = "1" /\ inv[lastClosed].wrote
  /\ diagFile.exists
  /\ \E i \in Slots : inv[i].code = "0"

Faulted(r) == r.pc = "done" /\ r.fault # "none"

\* C10 as claimed: a failed artifact step shows no notification, does not
\* make compile reject, and prevents none of the steps after it: the pane
\* that was active is activated and, after exit code 0, the source is opened
\* again and the compile completes.
C10_FailureSkipsNothing ==
  \A i \in Slots :
    Faulted(inv[i]) =>
      /\ "exception" \notin inv[i].notes
      /\ inv[i].result # "rejected"
      /\ inv[i].focusBack
      /\ inv[i].code = "0" => inv[i].reopened /\ inv[i].settled

\* C10 amended: a failed artifact step shows no notification and does not
\* make compile reject; after exit code 0 the source is still opened again,
\* the pane activated and the compile completed; after a non-zero exit the
\* compile failure is notified exactly as the setting asks, and the failed
\* write or open ends the handler there, the pane not being activated.
C10_FailureOnlyLogged ==
  \A i \in Slots :
    Faulted(inv[i]) =>
      /\ "exception" \notin inv[i].notes
      /\ inv[i].result # "rejected"
      /\ inv[i].code = "0" =>
           inv[i].result = "ok" /\ inv[i].reopened /\ inv[i].focusBack /\ inv[i].settled
      /\ inv[i].code = "1" =>
           /\ inv[i].result = "failed"
           /\ ("stderr-error" \in inv[i].notes) <=> inv[i].showErrOpt
           /\ inv[i].fault \in {"write", "open"}
           /\ ~inv[i].focusBack

\* C10 witness: a failed write after a compile failure that was notified
C10_Witness ==
  /\ Faulted(inv[1])
  /\ inv[1].fault = "write"
  /\ inv[1].notes = {"stderr-error"}
  /\ ~inv[1].focusBack

====
